---------------------------- MODULE Spec2Model ----------------------------
(***************************************************************************)
(* A model of ecourts_causelist_checker (src/Scrape.py): the two text      *)
(* matchers search_case_in_text_by_cnr and search_case_by_parts, and the   *)
(* structured-then-rendered fallback of main().                            *)
(*                                                                         *)
(* A Python str is a sequence of one-character strings.  An optional       *)
(* value (Python None or a value) is a sequence of length 0 or 1.          *)
(***************************************************************************)
EXTENDS Integers, Sequences, FiniteSets, TLC

VARIABLES
    pc,        \* position of main(): see the actions below
    args,      \* the parsed command line (argparse Namespace)
    api_key,   \* os.getenv('ECOURTS_API_KEY') is set
    output,    \* the dict `output` of main()
    sres,      \* the dict returned by selenium_fetch_cause_list_interactive
    calls,     \* the providers and the sink, in the order main() invoked them
    stdout,    \* the diagnostics printed so far
    files,     \* the files written so far
    fin,       \* input of a matcher applied on its own
    fout       \* its result

vars == <<pc, args, api_key, output, sres, calls, stdout, files, fin, fout>>

-----------------------------------------------------------------------------
(* Optional values and small helpers *)

None == <<>>

Some(x) == <<x>>

Min(S) == CHOOSE x \in S : \A y \in S : x <= y

Max(S) == CHOOSE x \in S : \A y \in S : x >= y

\* the elements of a finite set of integers, in increasing order
Sorted(S) == [k \in 1..Cardinality(S) |-> CHOOSE x \in S : Cardinality({y \in S : y < x}) = k - 1]

-----------------------------------------------------------------------------
(* Characters: the classes the regular expressions of the source use *)

UpperCase == <<"A","B","C","D","E","F","G","H","I","J","K","L","M",
               "N","O","P","Q","R","S","T","U","V","W","X","Y","Z">>

LowerCase == <<"a","b","c","d","e","f","g","h","i","j","k","l","m",
               "n","o","p","q","r","s","t","u","v","w","x","y","z">>

Digits == {"0","1","2","3","4","5","6","7","8","9"}

Range(s) == {s[i] : i \in 1..Len(s)}

IsUpper(c) == c \in Range(UpperCase)

IsLower(c) == c \in Range(LowerCase)

\* re.IGNORECASE compares characters up to case
Fold(c) == IF IsUpper(c) THEN LowerCase[CHOOSE i \in 1..Len(UpperCase) : UpperCase[i] = c] ELSE c

\* \w
WordChars == Range(UpperCase) \cup Range(LowerCase) \cup Digits \cup {"_"}

IsWord(c) == c \in WordChars

\* \s, and what str.strip() removes
SpaceChars == {" ", "\t", "\n", "\r", "\f"}

IsSpace(c) == c \in SpaceChars

\* the separators of str.splitlines()
LineBreaks == {"\n", "\r", "\f"}

IsLineBreak(c) == c \in LineBreaks

\* [:\s]
SerialGapChars == {":"} \cup SpaceChars

\* [A-Za-z0-9 ,.-]
CourtChars == Range(UpperCase) \cup Range(LowerCase) \cup Digits \cup {" ", ",", ".", "-"}

-----------------------------------------------------------------------------
(* Strings.  Positions are 1-based; a span is <<start, end>> as re's      *)
(* m.start() and m.end(): 0-based, end exclusive.                          *)

\* the literal lit stands at position i of t
LitAt(t, lit, i) ==
    /\ i >= 1
    /\ i + Len(lit) - 1 <= Len(t)
    /\ \A k \in 1..Len(lit) : t[i + k - 1] = lit[k]

\* the same under re.IGNORECASE
LitAtCI(t, lit, i) ==
    /\ i >= 1
    /\ i + Len(lit) - 1 <= Len(t)
    /\ \A k \in 1..Len(lit) : Fold(t[i + k - 1]) = Fold(lit[k])

\* \b between positions i-1 and i
WordBoundary(t, i) ==
    LET before == i - 1 >= 1 /\ i - 1 <= Len(t) /\ IsWord(t[i - 1])
        after  == i >= 1 /\ i <= Len(t) /\ IsWord(t[i])
    IN  before # after

\* text[start:stop] for 0 <= start
Slice(t, start, stop) == SubSeq(t, start + 1, IF stop < Len(t) THEN stop ELSE Len(t))

\* the position after the longest run, from position i, of characters of class
RunEnd(t, i, class) ==
    IF \E j \in i..Len(t) : t[j] \notin class
    THEN Min({j \in i..Len(t) : t[j] \notin class})
    ELSE Len(t) + 1

\* the position after the line that position i is on
LineEnd(t, i) ==
    IF \E j \in i..Len(t) : IsLineBreak(t[j])
    THEN Min({j \in i..Len(t) : IsLineBreak(t[j])})
    ELSE Len(t) + 1

\* str.strip()
Strip(s) ==
    LET keep == {i \in 1..Len(s) : ~IsSpace(s[i])}
    IN  IF keep = {} THEN <<>> ELSE SubSeq(s, Min(keep), Max(keep))

\* sub in t  (text.find(sub) != -1)
Contains(t, sub) == \E i \in 1..(Len(t) + 1) : LitAt(t, sub, i)

\* str.splitlines(): "\r\n" is one separator, a final separator opens no line
SplitLines(t) ==
    LET closes(i) == IsLineBreak(t[i]) /\ ~(t[i] = "\r" /\ i < Len(t) /\ t[i + 1] = "\n")
        starts    == {s \in 1..Len(t) : s = 1 \/ closes(s - 1)}
        order     == Sorted(starts)
    IN  [k \in 1..Cardinality(starts) |->
            SubSeq(t, order[k], LineEnd(t, order[k]) - 1)]

RECURSIVE JoinNL(_)
\* "\n".join(ls)
JoinNL(ls) ==
    IF Len(ls) = 0 THEN <<>>
    ELSE IF Len(ls) = 1 THEN ls[1]
    ELSE ls[1] \o <<"\n">> \o JoinNL(Tail(ls))

-----------------------------------------------------------------------------
(* The heuristic extractors shared by the matchers.  A value that the     *)
(* source names once and uses several times is a parameter here.          *)

SerialWord == <<"S","e","r","i","a","l">>

CourtWord == <<"C","o","u","r","t">>

\* \bSerial\b[:\s]*([0-9]+) under re.IGNORECASE matches from position i
SerialAt(t, i) ==
    /\ WordBoundary(t, i)
    /\ LitAtCI(t, SerialWord, i)
    /\ WordBoundary(t, i + Len(SerialWord))
    /\ RunEnd(t, i + Len(SerialWord), SerialGapChars) \in {d \in 1..Len(t) : t[d] \in Digits}

\* ([0-9]+) from position d
DigitsFrom(t, d) == SubSeq(t, d, RunEnd(t, d, Digits) - 1)

\* group(1) of the leftmost of the matches that start at `hits`, or None
SerialGroup(t, hits) ==
    IF hits = {} THEN None
    ELSE Some(DigitsFrom(t, RunEnd(t, Min(hits) + Len(SerialWord), SerialGapChars)))

\* re.search(r'\bSerial\b[:\s]*([0-9]+)', ctx, re.IGNORECASE): group(1) or None
SerialSearch(ctx) == SerialGroup(ctx, {i \in 1..Len(ctx) : SerialAt(ctx, i)})

\* where ([A-Za-z0-9 ,.-]+) may start once \s* has run from position q: the
\* greedy \s* gives characters back until the group has one to take
CourtGroupStarts(t, q) ==
    {k \in q..RunEnd(t, q, SpaceChars) : k <= Len(t) /\ t[k] \in CourtChars}

\* [:\-]\s*([A-Za-z0-9 ,.-]+) matches from position p
CourtNameAt(t, p) ==
    /\ p <= Len(t)
    /\ t[p] \in {":", "-"}
    /\ CourtGroupStarts(t, p + 1) # {}

\* Court\s*[:\-]\s*([A-Za-z0-9 ,.-]+) matches from position i
CourtAt(t, i) ==
    /\ LitAt(t, CourtWord, i)
    /\ CourtNameAt(t, RunEnd(t, i + Len(CourtWord), SpaceChars))

\* ([A-Za-z0-9 ,.-]+) from position g, stripped
CourtNameFrom(t, g) == Strip(SubSeq(t, g, RunEnd(t, g, CourtChars) - 1))

\* group(1).strip() of the leftmost of the matches that start at `hits`, or None
CourtGroup(t, hits) ==
    IF hits = {} THEN None
    ELSE Some(CourtNameFrom(t,
              Max(CourtGroupStarts(t, RunEnd(t, Min(hits) + Len(CourtWord), SpaceChars) + 1))))

\* re.search(r'Court\s*[:\-]\s*([A-Za-z0-9 ,.-]+)', ctx): group(1).strip() or None
CourtSearch(ctx) == CourtGroup(ctx, {i \in 1..Len(ctx) : CourtAt(ctx, i)})

-----------------------------------------------------------------------------
(* search_case_in_text_by_cnr *)

\* lines of context taken before and after the matching line
CONTEXT_LINES == 3

\* ContextLines with the slice ending one line early: lines[max(0, i-3) : i+3]
ContextLinesShort(lines, i) ==
    Slice(lines, IF i - CONTEXT_LINES > 0 THEN i - CONTEXT_LINES ELSE 0, i + CONTEXT_LINES)

\* lines[max(0, i-3) : i+4], i the 0-based index of the matching line
ContextLines(lines, i) ==
    Slice(lines, IF i - CONTEXT_LINES > 0 THEN i - CONTEXT_LINES ELSE 0, i + CONTEXT_LINES + 1)

\* the dict returned for the matching line i and its context
CnrMatch(context, i) ==
    [context |-> context,
     line_no |-> i,
     serial  |-> SerialSearch(context),
     court   |-> CourtSearch(context)]

\* for i,ln in enumerate(lines): if cnr in ln: ... return {...}; return None
FirstLineMatch(lines, hits) ==
    IF hits = {} THEN None
    ELSE Some(CnrMatch(JoinNL(ContextLines(lines, Min(hits) - 1)), Min(hits) - 1))

\* the loop over text.splitlines()
SearchLines(lines, cnr) ==
    FirstLineMatch(lines, {n \in 1..Len(lines) : Contains(lines[n], cnr)})

search_case_in_text_by_cnr(text, cnr) ==
    IF Len(cnr) = 0 THEN None
    ELSE IF ~Contains(text, cnr) THEN None
    ELSE SearchLines(SplitLines(text), cnr)

-----------------------------------------------------------------------------
(* search_case_by_parts *)

\* characters of context kept before and after the match span
WINDOW == 200

\* the position after the leftmost of the places `at`, n characters long; or 0
FirstEnd(at, n) == IF at = {} THEN 0 ELSE Min(at) + n

\* the position after the first place, from `from` on, where lit stands
\* (ignoring case); 0 when there is none or `from` is 0
FirstLitEnd(t, lit, from) ==
    IF from = 0 THEN 0
    ELSE FirstEnd({j \in from..(Len(t) + 1) : LitAtCI(t, lit, j)}, Len(lit))

\* where \bTYPE\b.*?NUMBER.*?YEAR (re.DOTALL) ends when it starts at position i,
\* or 0: each lazy .*? stops at the first place the next literal stands
PatternAEnd(t, typ, num, yr, i) ==
    IF ~(WordBoundary(t, i) /\ LitAtCI(t, typ, i) /\ WordBoundary(t, i + Len(typ))) THEN 0
    ELSE FirstLitEnd(t, yr, FirstLitEnd(t, num, i + Len(typ)))

\* the span (m.start(), m.end()) of the leftmost of the matches <<i, end>>,
\* end = 0 standing for no match from i; or None
Leftmost(ends) ==
    IF \A e \in ends : e[2] = 0 THEN None
    ELSE Some(CHOOSE span \in {<<e[1] - 1, e[2] - 1>> : e \in {x \in ends : x[2] # 0}} :
                  \A e \in ends : e[2] # 0 => span[1] <= e[1] - 1)

\* re.search of pattern (a)
PatternA(t, typ, num, yr) ==
    Leftmost({<<i, PatternAEnd(t, typ, num, yr, i)>> : i \in 1..(Len(t) + 1)})

\* the places from `from` on where lit stands (ignoring case) with no "\n"
\* between `from` and the place
OnLine(t, lit, from) ==
    {x \in from..(Len(t) + 1) :
        LitAtCI(t, lit, x) /\ \A y \in from..(x - 1) : t[y] # "\n"}

\* the position after the last of the places `at`, n characters long; or 0
LastEnd(at, n) == IF at = {} THEN 0 ELSE Max(at) + n

\* [^\n]*YEAR from position `from`, the greedy [^\n]* running as far as it can
GreedyYearEnd(t, yr, from) ==
    IF from = 0 THEN 0 ELSE LastEnd(OnLine(t, yr, from), Len(yr))

\* [^\n]*NUMBER[^\n]*YEAR from position `from`: the last NUMBER on the line
\* that a YEAR on the line follows, then the last such YEAR
GreedyNumberYearEnd(t, num, yr, from) ==
    GreedyYearEnd(t, yr,
        LastEnd({j \in OnLine(t, num, from) : OnLine(t, yr, j + Len(num)) # {}}, Len(num)))

\* where TYPE[^\n]*NUMBER[^\n]*YEAR ends when it starts at position i, or 0
PatternBEnd(t, typ, num, yr, i) ==
    IF ~LitAtCI(t, typ, i) THEN 0
    ELSE GreedyNumberYearEnd(t, num, yr, i + Len(typ))

\* re.search of pattern (b)
PatternB(t, typ, num, yr) ==
    Leftmost({<<i, PatternBEnd(t, typ, num, yr, i)>> : i \in 1..(Len(t) + 1)})

\* where \bLIT\b ends when it starts at position i, or 0
WholeWordEnd(t, lit, i) ==
    IF WordBoundary(t, i) /\ LitAtCI(t, lit, i) /\ WordBoundary(t, i + Len(lit))
    THEN i + Len(lit)
    ELSE 0

\* re.search of pattern (c), \bNUMBER/YEAR\b
PatternC(t, typ, num, yr) ==
    Leftmost({<<i, WholeWordEnd(t, num \o <<"/">> \o yr, i)>> : i \in 1..(Len(t) + 1)})

\* text[max(0, m.start()-200) : m.end()+200]
Window(t, span) ==
    Slice(t, IF span[1] - WINDOW > 0 THEN span[1] - WINDOW ELSE 0, span[2] + WINDOW)

\* FirstOf with the list of patterns in the opposite order
FirstOfReversed(a, b, c) == IF c # None THEN c ELSE IF b # None THEN b ELSE a

\* for p in patterns: m = re.search(p, ...); if m: ...
FirstOf(a, b, c) == IF a # None THEN a ELSE IF b # None THEN b ELSE c

\* the span of the first of the patterns, in the order of the list, that matches
FirstPattern(t, typ, num, yr) ==
    FirstOf(PatternA(t, typ, num, yr), PatternB(t, typ, num, yr), PatternC(t, typ, num, yr))

\* the dict returned for the context ctx
PartsMatch(ctx) == [context |-> ctx, serial |-> SerialSearch(ctx)]

\* the result for the span m of the first pattern that matched, if any
PartsResult(text, m) == IF m = None THEN None ELSE Some(PartsMatch(Window(text, m[1])))

search_case_by_parts(text, case_type, number, year) ==
    IF Len(case_type) = 0 \/ Len(number) = 0 \/ Len(year) = 0 THEN None
    ELSE PartsResult(text, FirstPattern(text, case_type, number, year))

-----------------------------------------------------------------------------
(* main(): the command line, the query and the outcome *)

\* json.dumps of one character of a JSON string (ensure_ascii, ASCII input)
JsonEscape(c) ==
    CASE c = "\"" -> <<"\\", "\"">>
      [] c = "\\" -> <<"\\", "\\">>
      [] c = "\n" -> <<"\\", "n">>
      [] c = "\r" -> <<"\\", "r">>
      [] c = "\t" -> <<"\\", "t">>
      [] c = "\f" -> <<"\\", "f">>
      [] OTHER    -> <<c>>

RECURSIVE JsonEscapeAll(_)
JsonEscapeAll(s) == IF Len(s) = 0 THEN <<>> ELSE JsonEscape(Head(s)) \o JsonEscapeAll(Tail(s))

\* text_blob = json.dumps(api_res), the payload being one JSON string
JsonDumps(api_res) == <<"\"">> \o JsonEscapeAll(api_res) \o <<"\"">>

\* `if args.cnr:` / `elif args.case:` -- an option that was given a non-empty value
Truthy(opt) == opt # None /\ Len(opt[1]) > 0

\* argparse: a required mutually exclusive group of --cnr and --case (nargs=3)
ArgparseAccepts(cmd) ==
    /\ (cmd.cnr # None) # (cmd.case # None)
    /\ cmd.case # None => Len(cmd.case[1]) = 3

EmptyQuery == [cnr |-> None, case_type |-> None, case_number |-> None, case_year |-> None]

\* the dict `query`: a key that is absent is None
BuildQuery(a) ==
    IF Truthy(a.cnr)
    THEN [EmptyQuery EXCEPT !.cnr = Some(Strip(a.cnr[1]))]
    ELSE IF Truthy(a.case)
    THEN [EmptyQuery EXCEPT !.case_type   = Some(Strip(a.case[1][1])),
                            !.case_number = Some(Strip(a.case[1][2])),
                            !.case_year   = Some(Strip(a.case[1][3]))]
    ELSE EmptyQuery

NewOutput(query) ==
    [query |-> query, method |-> "None", found |-> FALSE, matches |-> <<>>,
     notes |-> <<>>, api_response_sample |-> None, cause_list_pdf |-> None]

NOTE_NO_KEY == "API mode requested but ECOURTS_API_KEY not set."

NOTE_API_ERROR == "API error: "

NOTE_NOT_FOUND == "Case not found in the displayed cause list content."

AddNote(o, note) == [o EXCEPT !.notes = Append(@, note)]

\* RecordMatch without the append
RecordMatchFoundOnly(o, match) == [o EXCEPT !.found = TRUE]

\* output['found'] = True; output['matches'].append(match)
RecordMatch(o, match) == [o EXCEPT !.found = TRUE, !.matches = Append(@, match)]

\* output['method'] = 'api'
SetMethodApi(o) == [o EXCEPT !.method = "api"]

\* SetMethodFallback overwriting the method already set
SetMethodOverwrite(o) == [o EXCEPT !.method = "selenium_interactive"]

\* output['method'] = output.get('method') or 'selenium_interactive'
SetMethodFallback(o) == [o EXCEPT !.method = IF @ = "None" THEN "selenium_interactive" ELSE @]

\* FallbackNeeded ignoring the structured match
FallbackAlways(o) == TRUE

\* FallbackNeeded taking a structured attempt for a structured match
FallbackIfNoMethod(o) == o.method = "None"

\* `if not output.get('found'):`
FallbackNeeded(o) == ~o.found

\* query.get(key): the matcher treats None and '' alike (`if not (...)`)
OrEmpty(opt) == IF opt = None THEN <<>> ELSE opt[1]

\* the matcher a stage applies to its text, by the variant the query holds
MatchQuery(text, query) ==
    IF query.cnr # None
    THEN search_case_in_text_by_cnr(text, query.cnr[1])
    ELSE search_case_by_parts(text, OrEmpty(query.case_type),
                              OrEmpty(query.case_number), OrEmpty(query.case_year))

\* query['case_type'] raises KeyError when the query holds neither variant
ApiMatchRaises(query) == query.cnr = None /\ query.case_type = None

Invoked(what) == \E i \in 1..Len(calls) : calls[i] = what

Count(what) == Cardinality({i \in 1..Len(calls) : calls[i] = what})

-----------------------------------------------------------------------------
(* The inputs the model draws: command lines, payloads and page texts *)

ScenarioCnr ==
    <<"M","H","A","U","0","1","2","3","4","5","6","6","2","0","2","0">>

ScenarioLine ==
    <<"I","t","e","m"," ","4"," ","M","H","A","U","0","1","2","3","4","5",
      "6","6","2","0","2","0"," ","S","e","r","i","a","l",":"," ","7"," ",
      "C","o","u","r","t",":"," ","D","i","s","t","r","i","c","t"," ","J",
      "u","d","g","e">>

CaseType ==
    <<"C","C">>

CaseNumber ==
    <<"1","2","3">>

CaseYear ==
    <<"2","0","2","3">>

PaddedCaseType ==
    <<" ","C","C">>

BoardText ==
    <<"C","a","u","s","e"," ","L","i","s","t","\n","I","t","e","m"," ","3",
      " ","D","L","N","D","0","1","0","0","0","0","0","1","2","0","2","1",
      " ","S","e","r","i","a","l",":"," ","6"," ","C","o","u","r","t",":",
      " ","M","a","g","i","s","t","r","a","t","e","\n","I","t","e","m"," ",
      "4"," ","M","H","A","U","0","1","2","3","4","5","6","6","2","0","2",
      "0"," ","S","e","r","i","a","l",":"," ","7"," ","C","o","u","r","t",
      ":"," ","D","i","s","t","r","i","c","t"," ","J","u","d","g","e","\n",
      "I","t","e","m"," ","5"," ","C","C"," ","1","2","3"," ","2","0","2",
      "3","\n">>

BareNumberText ==
    <<"I","t","e","m"," ","9"," ","1","2","3","/","2","0","2","3"," ","l",
      "i","s","t","e","d">>

NoCaseText ==
    <<"N","o"," ","c","a","s","e","s"," ","l","i","s","t","e","d"," ","t",
      "o","d","a","y">>

CnrPayload ==
    <<"I","t","e","m"," ","4"," ","M","H","A","U","0","1","2","3","4","5",
      "6","6","2","0","2","0"," ","S","e","r","i","a","l",":"," ","7","\n",
      "C","o","u","r","t",":"," ","D","i","s","t","r","i","c","t"," ","J",
      "u","d","g","e">>

PartsPayload ==
    <<"C","C","/","1","2","3","/","2","0","2","3"," ","S","e","r","i","a",
      "l",":"," ","2">>

EmptyPayload ==
    <<"[","]">>

\* "...Item 4 MHAU012345662020 Serial: 7 Court: District Judge..."
ScenarioText == <<".", ".", ".">> \o ScenarioLine \o <<".", ".", ".">>

\* the scenario line with a line break after the court name
ScenarioPage == ScenarioLine \o <<"\n">> \o NoCaseText

\* values of --cnr: not given, '', ' ', a CNR
CnrArgs == {None, Some(<<>>), Some(<<" ">>), Some(ScenarioCnr)}

\* values of --case: not given, two values, three values, three with an empty type
CaseArgs == {None,
             Some(<<CaseType, CaseNumber>>),
             Some(<<PaddedCaseType, CaseNumber, CaseYear>>),
             Some(<<<<>>, CaseNumber, CaseYear>>)}

CommandLines == [cnr : CnrArgs, case : CaseArgs, api : BOOLEAN, causelist : BOOLEAN]

\* resp.json() of a successful call
ApiPayloads == {CnrPayload, PartsPayload, EmptyPayload}

\* soup.get_text() of the page the operator left on display
RenderedTexts == {ScenarioText, ScenarioPage, BoardText, BareNumberText, NoCaseText}

\* Page.printToPDF: not asked for, raised, returned no data, returned data
PdfOutcomes == {"off", "raised", "nodata", "data"}

NoSres == [raw_text |-> <<>>, cause_list_pdf_b64 |-> None]

NoInput == [fn |-> "none"]

OUT_NO_KEY == "[!] ECOURTS_API_KEY not set in environment; skipping API mode."

OUT_API_FAILED == "[!] API mode failed:"

OUT_PDF_NO_DATA == "[!] PDF generation returned no data."

OUT_PDF_FAILED == "[!] PDF generation failed:"

OUT_NOT_FOUND == "[!] Case not found in the displayed cause list content."

OUT_SAVED == "[+] Saved JSON"

-----------------------------------------------------------------------------
(* main() *)

Init ==
    /\ pc = "start"
    /\ args \in CommandLines
    /\ api_key \in BOOLEAN
    /\ output = NewOutput(EmptyQuery)
    /\ sres = NoSres
    /\ calls = <<>>
    /\ stdout = {}
    /\ files = {}
    /\ fin = NoInput
    /\ fout = None

\* parser.parse_args() accepts the command line; query and output are built
ParseArgs ==
    /\ pc = "start"
    /\ ArgparseAccepts(args)
    /\ output' = NewOutput(BuildQuery(args))
    /\ pc' = "api_stage"
    /\ UNCHANGED <<args, api_key, sres, calls, stdout, files, fin, fout>>

\* parser.parse_args() rejects the command line: parser.error, exit status 2
UsageError ==
    /\ pc = "start"
    /\ ~ArgparseAccepts(args)
    /\ pc' = "usage_error"
    /\ UNCHANGED <<args, api_key, output, sres, calls, stdout, files, fin, fout>>

\* `if args.api:` is false
ApiNotRequested ==
    /\ pc = "api_stage"
    /\ ~args.api
    /\ pc' = "fallback"
    /\ UNCHANGED <<args, api_key, output, sres, calls, stdout, files, fin, fout>>

\* --api without ECOURTS_API_KEY
ApiNoKey ==
    /\ pc = "api_stage"
    /\ args.api
    /\ ~api_key
    /\ output' = AddNote(output, NOTE_NO_KEY)
    /\ stdout' = stdout \cup {OUT_NO_KEY}
    /\ pc' = "fallback"
    /\ UNCHANGED <<args, api_key, sres, calls, files, fin, fout>>

\* api_get_cause_list_by_params raises (requests.post, raise_for_status, resp.json)
ApiError ==
    /\ pc = "api_stage"
    /\ args.api
    /\ api_key
    /\ output' = AddNote(SetMethodApi(output), NOTE_API_ERROR)
    /\ calls' = calls \o <<"api:call", "api:raise">>
    /\ stdout' = stdout \cup {OUT_API_FAILED}
    /\ pc' = "fallback"
    /\ UNCHANGED <<args, api_key, sres, files, fin, fout>>

\* `if match:` of the structured stage
ApplyApiMatch(o, match) ==
    IF match # None THEN RecordMatch(o, match[1]) ELSE [o EXCEPT !.found = FALSE]

\* the outcome once the call has returned api_res: a KeyError of the lookup
\* of the query is caught as any error of the call is
AfterApiReturn(o, api_res) ==
    IF ApiMatchRaises(o.query)
    THEN AddNote(o, NOTE_API_ERROR)
    ELSE [ApplyApiMatch(o, MatchQuery(JsonDumps(api_res), o.query))
             EXCEPT !.api_response_sample = Some(api_res)]

\* api_get_cause_list_by_params returns a payload, which is matched
ApiReturn ==
    /\ pc = "api_stage"
    /\ args.api
    /\ api_key
    /\ \E api_res \in ApiPayloads :
          output' = AfterApiReturn(SetMethodApi(output), api_res)
    /\ calls' = calls \o <<"api:call", "api:return">>
    /\ stdout' = IF ApiMatchRaises(output.query) THEN stdout \cup {OUT_API_FAILED} ELSE stdout
    /\ pc' = "fallback"
    /\ UNCHANGED <<args, api_key, sres, files, fin, fout>>

\* `if not output.get('found'):` is false
SkipRendered ==
    /\ pc = "fallback"
    /\ ~FallbackNeeded(output)
    /\ pc' = "save"
    /\ UNCHANGED <<args, api_key, output, sres, calls, stdout, files, fin, fout>>

\* selenium_fetch_cause_list_interactive is called, the browser opens the page
\* and input() waits for the operator
RenderedOpen ==
    /\ pc = "fallback"
    /\ FallbackNeeded(output)
    /\ output' = SetMethodFallback(output)
    /\ calls' = Append(calls, "selenium:call")
    /\ pc' = "operator_wait"
    /\ UNCHANGED <<args, api_key, sres, stdout, files, fin, fout>>

\* selenium_fetch_cause_list_interactive is called and webdriver.Chrome or
\* driver.get raises: nothing in main() catches it
RenderedOpenFails ==
    /\ pc = "fallback"
    /\ FallbackNeeded(output)
    /\ output' = SetMethodFallback(output)
    /\ calls' = calls \o <<"selenium:call", "selenium:raise">>
    /\ pc' = "crashed"
    /\ UNCHANGED <<args, api_key, sres, stdout, files, fin, fout>>

\* what the PDF attempt prints
PdfPrinted(pdf) ==
    CASE pdf = "raised" -> {OUT_PDF_FAILED}
      [] pdf = "nodata" -> {OUT_PDF_NO_DATA}
      [] OTHER          -> {}

\* the operator presses Enter: the text is extracted, the PDF is attempted when
\* --causelist was given, and the function returns its result
OperatorReady ==
    /\ pc = "operator_wait"
    /\ \E text \in RenderedTexts, pdf \in PdfOutcomes :
          /\ (pdf = "off") = ~args.causelist
          /\ sres' = [raw_text |-> text,
                      cause_list_pdf_b64 |-> IF pdf = "data" THEN Some("b64") ELSE None]
          /\ stdout' = stdout \cup PdfPrinted(pdf)
    /\ calls' = Append(calls, "selenium:return")
    /\ pc' = "rendered_match"
    /\ UNCHANGED <<args, api_key, output, files, fin, fout>>

\* `if match:` of the rendered stage
ApplyRenderedMatch(o, match) ==
    IF match # None THEN RecordMatch(o, match[1]) ELSE AddNote(o, NOTE_NOT_FOUND)

\* the outcome once the rendered text has been matched
AfterRenderedMatch(o, text) == ApplyRenderedMatch(o, MatchQuery(text, o.query))

\* the rendered text is matched; a captured PDF is written beside the output
RenderedMatch ==
    /\ pc = "rendered_match"
    /\ \E o1 \in {AfterRenderedMatch(output, sres.raw_text)} :
          IF sres.cause_list_pdf_b64 # None
          THEN /\ output' = [o1 EXCEPT !.cause_list_pdf = Some("cause_list_<date>.pdf")]
               /\ files' = files \cup {"pdf"}
          ELSE /\ output' = o1
               /\ files' = files
    /\ stdout' = IF output'.found THEN stdout ELSE stdout \cup {OUT_NOT_FOUND}
    /\ pc' = "save"
    /\ UNCHANGED <<args, api_key, sres, calls, fin, fout>>

\* the rendered text is matched, then b64decode or the write of the PDF raises
PdfWriteFails ==
    /\ pc = "rendered_match"
    /\ sres.cause_list_pdf_b64 # None
    /\ output' = AfterRenderedMatch(output, sres.raw_text)
    /\ stdout' = IF output'.found THEN stdout ELSE stdout \cup {OUT_NOT_FOUND}
    /\ pc' = "crashed"
    /\ UNCHANGED <<args, api_key, sres, calls, files, fin, fout>>

\* save_json(output, args.out)
Save ==
    /\ pc = "save"
    /\ calls' = Append(calls, "save")
    /\ files' = files \cup {"json"}
    /\ stdout' = stdout \cup {OUT_SAVED}
    /\ pc' = "done"
    /\ UNCHANGED <<args, api_key, output, sres, fin, fout>>

\* save_json raises (open or json.dump)
SaveFails ==
    /\ pc = "save"
    /\ calls' = calls \o <<"save", "save:raise">>
    /\ pc' = "crashed"
    /\ UNCHANGED <<args, api_key, output, sres, stdout, files, fin, fout>>

Next ==
    \/ ParseArgs
    \/ UsageError
    \/ ApiNotRequested
    \/ ApiNoKey
    \/ ApiError
    \/ ApiReturn
    \/ SkipRendered
    \/ RenderedOpen
    \/ RenderedOpenFails
    \/ OperatorReady
    \/ RenderedMatch
    \/ PdfWriteFails
    \/ Save
    \/ SaveFails

Spec == Init /\ [][Next]_vars

-----------------------------------------------------------------------------
(* search_case_in_text_by_cnr applied on its own to every short text *)

\* the longest text drawn
MaxTextLen == 10

TextAlphabet == {"a", "\n"}

CnrTexts == UNION {[1..k -> TextAlphabet] : k \in 0..MaxTextLen}

\* '', a one-line CNR, a two-character CNR, a CNR with a line break in it
CnrInputs == {<<>>, <<"a">>, <<"a", "a">>, <<"a", "\n", "a">>}

IdleArgs == [cnr |-> None, case |-> None, api |-> FALSE, causelist |-> FALSE]

MainIdle ==
    /\ args = IdleArgs
    /\ api_key = FALSE
    /\ output = NewOutput(EmptyQuery)
    /\ sres = NoSres
    /\ calls = <<>>
    /\ stdout = {}
    /\ files = {}

InitCnr ==
    /\ pc = "input"
    /\ fin \in [fn : {"cnr"}, text : CnrTexts, cnr : CnrInputs]
    /\ fout = None
    /\ MainIdle

ApplyCnr ==
    /\ pc = "input"
    /\ fin.fn = "cnr"
    /\ fout' = search_case_in_text_by_cnr(fin.text, fin.cnr)
    /\ pc' = "applied"
    /\ UNCHANGED <<args, api_key, output, sres, calls, stdout, files, fin>>

NextCnr == ApplyCnr

SpecCnr == InitCnr /\ [][NextCnr]_vars

-----------------------------------------------------------------------------
(* search_case_by_parts applied on its own to texts built of segments and *)
(* runs of padding shorter and longer than the context window             *)

\* how far the long runs of padding exceed the window
MaxSlack == 1

Pad(c, n) == [i \in 1..n |-> c]

\* matches (a) and (b)
SegPlain == <<"C","C"," ","1","2","3"," ","2","0","2","3">>

\* matches (c) alone
SegBare == <<"1","2","3","/","2","0","2","3">>

\* matches (a) and (c)
SegBoth == <<"C","C"," ","1","2","3","/","2","0","2","3">>

\* matches (a) alone: lower case, over three lines
SegLines == <<"c","c","\n","1","2","3","\n","2","0","2","3">>

\* matches (b) alone: the type ends a longer word
SegInWord == <<"A","C","C","-","1","2","3","-","2","0","2","3">>

\* matches (c) when the number is empty
SegNoNumber == <<"x","/","2","0","2","3">>

Segments == {<<>>, SegPlain, SegBare, SegBoth, SegLines, SegInWord, SegNoNumber}

PartsTexts ==
    {Pad(c, pre) \o s1 \o Pad(c, mid) \o s2 \o Pad(c, post) :
        c \in {" ", "x"}, pre \in {0, WINDOW + MaxSlack}, s1 \in Segments,
        mid \in {1, WINDOW + MaxSlack}, s2 \in {<<>>, SegPlain, SegBare}, post \in {0, WINDOW + MaxSlack}}

\* (type, number, year): all given, the number empty, the type empty
PartsInputs == {<<CaseType, CaseNumber, CaseYear>>,
                <<CaseType, <<>>, CaseYear>>,
                <<<<>>, CaseNumber, CaseYear>>}

InitParts ==
    /\ pc = "input"
    /\ fin \in [fn : {"parts"}, text : PartsTexts, parts : PartsInputs]
    /\ fout = None
    /\ MainIdle

ApplyParts ==
    /\ pc = "input"
    /\ fin.fn = "parts"
    /\ fout' = search_case_by_parts(fin.text, fin.parts[1], fin.parts[2], fin.parts[3])
    /\ pc' = "applied"
    /\ UNCHANGED <<args, api_key, output, sres, calls, stdout, files, fin>>

NextParts == ApplyParts

SpecParts == InitParts /\ [][NextParts]_vars

-----------------------------------------------------------------------------
(* Properties of main(), checked under Spec *)

\* the structured stage got a payload and the matcher found the case in it
ApiMatched ==
    /\ output.api_response_sample # None
    /\ MatchQuery(JsonDumps(output.api_response_sample[1]), output.query) # None

\* main() has decided whether to fall back
PastFallback == pc \in {"operator_wait", "rendered_match", "save", "done", "crashed"}

\* main() has created the outcome
OutcomeExists == pc \in {"api_stage", "fallback", "operator_wait", "rendered_match",
                         "save", "done", "crashed"}

\* C1: whenever structured access was requested, the Structured Provider
\* returned content and the Text Matcher found the case in it, found is true
\* and selenium_fetch_cause_list_interactive has not been invoked, up to and
\* after the moment the outcome is persisted.
C1_ShortCircuit ==
    (args.api /\ ApiMatched) => (output.found /\ ~Invoked("selenium:call"))

\* C1 witness: a run persisted its outcome right after a structured match
C1_Witness ==
    /\ pc = "done"
    /\ ApiMatched
    /\ calls = <<"api:call", "api:return", "save">>

\* C2: from the creation of the outcome up to and including the moment it is
\* persisted (and in a run that crashed), found is true if and only if
\* matches is non-empty.
C2_FoundIffMatches ==
    OutcomeExists => (output.found <=> Len(output.matches) > 0)

\* C2 witness: an outcome persisted with a match that the rendered stage
\* made after the structured stage had fetched content without one
C2_Witness ==
    /\ pc = "done"
    /\ output.found
    /\ Len(output.matches) = 1
    /\ calls = <<"api:call", "api:return", "selenium:call", "selenium:return", "save">>

\* C3: no provider is invoked more than once; the Rendered Provider is
\* invoked only after the structured stage is over and after every event of
\* the Structured Provider; and once main() is past its fallback decision
\* without a structured match (not requested, no credential, call failed, or
\* no match), the Rendered Provider has been invoked exactly once.
C3_FallThrough ==
    /\ Count("api:call") <= 1
    /\ Count("selenium:call") <= 1
    /\ \A i \in 1..Len(calls) :
          calls[i] = "selenium:call" =>
             /\ pc \notin {"start", "api_stage"}
             /\ \A j \in 1..Len(calls) :
                   calls[j] \in {"api:call", "api:return", "api:raise"} => j < i
    /\ (PastFallback /\ ~ApiMatched) => Count("selenium:call") = 1

\* C3 witness: the Rendered Provider ran after a structured call that raised
C3_Witness ==
    /\ pc = "done"
    /\ calls = <<"api:call", "api:raise", "selenium:call", "selenium:return", "save">>

\* C4 as claimed: in the persisted outcome method names the last strategy
\* that produced content: 'selenium_interactive' whenever the Rendered
\* Provider returned content, 'api' only when the Structured Provider was
\* the last to return content.
C4_MethodIsLastContent ==
    pc = "done" =>
       /\ Invoked("selenium:return") => output.method = "selenium_interactive"
       /\ output.method = "api" => (Invoked("api:return") /\ ~Invoked("selenium:return"))

\* C4 as amended: in the persisted outcome method names the first provider
\* that was invoked: 'api' exactly when the Structured Provider was invoked
\* (whatever it returned, and whether or not the Rendered Provider ran
\* afterwards), 'selenium_interactive' exactly when the Rendered Provider was
\* invoked and the Structured Provider was not; it is never absent.
C4_MethodIsFirstInvoked ==
    pc = "done" =>
       /\ output.method = "api" <=> Invoked("api:call")
       /\ output.method = "selenium_interactive" <=>
             (~Invoked("api:call") /\ Invoked("selenium:call"))
       /\ output.method # "None"

\* C4 witness: persisted with method 'api' although the structured call
\* raised and the match came from the Rendered Provider
C4_Witness ==
    /\ pc = "done"
    /\ output.method = "api"
    /\ output.found
    /\ Invoked("api:raise")
    /\ Invoked("selenium:return")

\* C5: a run that has ended, the sink itself not having failed, has persisted
\* its outcome exactly once, whatever failed in a provider.
C5_AlwaysPersists ==
    (pc \in {"done", "crashed"} /\ ~Invoked("save:raise")) =>
       (Count("save") = 1 /\ "json" \in files)

\* the recoverable condition a note reports
NoteCondition(note) ==
    CASE note = NOTE_NO_KEY    -> "RemoteUnavailable"
      [] note = NOTE_API_ERROR -> "RemoteError"
      [] note = NOTE_NOT_FOUND -> "NoMatchFound"
      [] OTHER                 -> "Unknown"

HasNoteFor(condition) ==
    \E i \in 1..Len(output.notes) : NoteCondition(output.notes[i]) = condition

\* C6: in the persisted outcome an absent credential, a failed remote call
\* and a failed emission of the document each have their note, and after a
\* failed emission the extracted text was still matched.
C6_NotesRecordFailures ==
    pc = "done" =>
       /\ (args.api /\ ~api_key) => HasNoteFor("RemoteUnavailable")
       /\ Invoked("api:raise") => HasNoteFor("RemoteError")
       /\ OUT_PDF_FAILED \in stdout => HasNoteFor("DocumentEmissionFailure")
       /\ OUT_PDF_FAILED \in stdout =>
             (output.found <=> MatchQuery(sres.raw_text, output.query) # None)

\* the query holds a CNR or all three case parts, and not both
ExactlyOneVariant(q) ==
    (q.cnr # None) #
       (q.case_type # None /\ q.case_number # None /\ q.case_year # None)

\* C7: a rejected command line invokes no provider and writes no file, and
\* every run that invoked a provider has a query with exactly one variant.
C7_InvalidInputFatal ==
    /\ pc = "usage_error" => (calls = <<>> /\ files = {})
    /\ calls # <<>> => ExactlyOneVariant(output.query)

DistrictJudge == <<"D","i","s","t","r","i","c","t"," ","J","u","d","g","e">>

\* C10: with the scenario's CNR, structured access disabled and a rendered
\* text that contains the scenario's line, the run goes straight to the
\* rendered path and persists found = true, serial "7", court "District Judge".
C10_Scenario ==
    (/\ pc = "done"
     /\ output.query.cnr = Some(ScenarioCnr)
     /\ ~args.api
     /\ Contains(sres.raw_text, ScenarioLine)) =>
       /\ calls = <<"selenium:call", "selenium:return", "save">>
       /\ output.found
       /\ Len(output.matches) = 1
       /\ output.matches[1].serial = Some(<<"7">>)
       /\ output.matches[1].court = Some(DistrictJudge)

-----------------------------------------------------------------------------
(* Properties of search_case_in_text_by_cnr, checked under SpecCnr *)

\* the lines lo..hi (1-based, inclusive) of lines, joined with newlines
JoinedLines(lines, lo, hi) == JoinNL([k \in 1..(hi - lo + 1) |-> lines[lo + k - 1]])

\* what the claim says of a text whose line n (1-based) is the first to hold the CNR
CnrResultIs(result, lines, n) ==
    /\ result # None
    /\ result[1].line_no = n - 1
    /\ result[1].context =
          JoinedLines(lines, IF n - 3 > 1 THEN n - 3 ELSE 1,
                             IF n + 3 < Len(lines) THEN n + 3 ELSE Len(lines))
    /\ Contains(result[1].context, lines[n])

\* the lines (1-based) of the text that hold the CNR
LinesWith(text, cnr) ==
    {n \in 1..Len(SplitLines(text)) : Contains(SplitLines(text)[n], cnr)}

CnrClaim(text, cnr, result) ==
    /\ ~Contains(text, cnr) => result = None
    /\ LinesWith(text, cnr) # {} =>
          CnrResultIs(result, SplitLines(text), Min(LinesWith(text, cnr)))

\* C8 as claimed: for any text and CNR the result is absent when the CNR does
\* not occur in the text, and when it occurs on some line, line_no is the
\* index of the first such line and context is the lines from 3 before to 3
\* after it (clipped), joined with newlines, and contains that line.
C8_AnyCnr ==
    (pc = "applied" /\ fin.fn = "cnr") => CnrClaim(fin.text, fin.cnr, fout)

\* C8 as amended: the same for any text and any non-empty CNR; for the empty
\* CNR the result is absent whatever the text.
C8_NonEmptyCnr ==
    (pc = "applied" /\ fin.fn = "cnr") =>
       IF Len(fin.cnr) = 0 THEN fout = None ELSE CnrClaim(fin.text, fin.cnr, fout)

\* C8 witness: the first line with the CNR has more than 3 lines before it
\* and more than 3 after it, so both ends of the window lie inside the text
C8_Witness ==
    /\ pc = "applied"
    /\ fin.fn = "cnr"
    /\ fout # None
    /\ fout[1].line_no > 3
    /\ Len(SplitLines(fin.text)) > fout[1].line_no + 4

-----------------------------------------------------------------------------
(* Properties of search_case_by_parts, checked under SpecParts *)

\* the characters from 200 before the span to 200 after it, within the text
ExpectedWindow(text, span) ==
    SubSeq(text, IF span[1] - 200 > 0 THEN span[1] - 200 + 1 ELSE 1,
                 IF span[2] + 200 < Len(text) THEN span[2] + 200 ELSE Len(text))

ContextIs(result, text, m) == result # None /\ result[1].context = ExpectedWindow(text, m[1])

PartsClaim(text, typ, num, yr, result) ==
    /\ PatternA(text, typ, num, yr) # None =>
          ContextIs(result, text, PatternA(text, typ, num, yr))
    /\ (PatternA(text, typ, num, yr) = None /\ PatternB(text, typ, num, yr) # None) =>
          ContextIs(result, text, PatternB(text, typ, num, yr))
    /\ (/\ PatternA(text, typ, num, yr) = None
        /\ PatternB(text, typ, num, yr) = None
        /\ PatternC(text, typ, num, yr) # None) =>
          ContextIs(result, text, PatternC(text, typ, num, yr))

\* C9 as claimed: the first of the patterns (a), (b), (c) that matches
\* determines the result: text matching only (c) still yields a result, and
\* text matching (a) and (c) yields the window of 200 characters around the
\* match of (a).
C9_AnyParts ==
    (pc = "applied" /\ fin.fn = "parts") =>
       PartsClaim(fin.text, fin.parts[1], fin.parts[2], fin.parts[3], fout)

\* C9 as amended: the same provided case_type, number and year are all
\* non-empty; when one of them is empty the result is absent whatever the
\* text matches.
C9_NonEmptyParts ==
    (pc = "applied" /\ fin.fn = "parts") =>
       IF Len(fin.parts[1]) = 0 \/ Len(fin.parts[2]) = 0 \/ Len(fin.parts[3]) = 0
       THEN fout = None
       ELSE PartsClaim(fin.text, fin.parts[1], fin.parts[2], fin.parts[3], fout)

\* C9 witness: (a) and (c) both match, their windows differ, the window of
\* (a) does not start at the start of the text, and it is the one returned
C9_Witness ==
    /\ pc = "applied"
    /\ fin.fn = "parts"
    /\ fout # None
    /\ PatternA(fin.text, fin.parts[1], fin.parts[2], fin.parts[3]) # None
    /\ PatternC(fin.text, fin.parts[1], fin.parts[2], fin.parts[3]) # None
    /\ PatternA(fin.text, fin.parts[1], fin.parts[2], fin.parts[3])[1][1] > 200
    /\ ExpectedWindow(fin.text, PatternC(fin.text, fin.parts[1], fin.parts[2], fin.parts[3])[1])
          # fout[1].context
    /\ ExpectedWindow(fin.text, PatternA(fin.text, fin.parts[1], fin.parts[2], fin.parts[3])[1])
          = fout[1].context

=============================================================================
